---------------------------- MODULE Spec2Model ----------------------------
(***************************************************************************)
(* A model of the news retrieval pipeline (news_fetcher.py) and of the     *)
(* briefing orchestrator and chat handler (app.py).                        *)
(*                                                                         *)
(* Text is a sequence of one-character strings, so that lower-casing,      *)
(* trimming, slicing, substring search and tag stripping are computed.     *)
(***************************************************************************)
EXTENDS Integers, Sequences, FiniteSets, TLC

VARIABLES
  apiKey,   \* config.GEMINI_API_KEY, read once at import
  cache,    \* news_fetcher._cache: key -> [data, ts]
  now,      \* time.time(), in seconds
  world,    \* what every feed URL currently serves
  op,       \* the operation that ran last
  calls,    \* the fetch_news calls of the last operation, in order
  llm,      \* the call_gemini calls of the last operation, in order
  arg,      \* the argument of the last operation
  ret,      \* how the last operation ended
  writer,   \* instrumentation: key -> the topic whose call stored the entry
  session   \* st.session_state: the chats, newest first, and the active chat's id

vars == <<apiKey, cache, now, world, op, arg, calls, llm, ret, writer, session>>

---------------------------------------------------------------------------
(* Text helpers *)

Take(s, n) == SubSeq(s, 1, IF n < Len(s) THEN n ELSE Len(s))

UpperToLower ==
  [A |-> "a", B |-> "b", C |-> "c", D |-> "d", E |-> "e", F |-> "f", G |-> "g",
   H |-> "h", I |-> "i", J |-> "j", K |-> "k", L |-> "l", M |-> "m", N |-> "n",
   O |-> "o", P |-> "p", Q |-> "q", R |-> "r", S |-> "s", T |-> "t", U |-> "u",
   V |-> "v", W |-> "w", X |-> "x", Y |-> "y", Z |-> "z"]

Lower(s) == [i \in 1..Len(s) |-> IF s[i] \in DOMAIN UpperToLower THEN UpperToLower[s[i]] ELSE s[i]]

Whitespace == {" ", "\t", "\n", "\r", "\f"}

RECURSIVE LStrip(_)
LStrip(s) == IF s # <<>> /\ Head(s) \in Whitespace THEN LStrip(Tail(s)) ELSE s

RECURSIVE RStrip(_)
RStrip(s) == IF s # <<>> /\ s[Len(s)] \in Whitespace THEN RStrip(SubSeq(s, 1, Len(s) - 1)) ELSE s

Strip(s) == RStrip(LStrip(s))

Contains(kw, q) == \E i \in 0..(Len(q) - Len(kw)) : SubSeq(q, i + 1, i + Len(kw)) = kw

RECURSIVE Concat(_)
Concat(ss) == IF ss = <<>> THEN <<>> ELSE Head(ss) \o Concat(Tail(ss))

RECURSIVE Join(_, _)
Join(sep, ss) ==
  IF ss = <<>> THEN <<>>
  ELSE IF Len(ss) = 1 THEN ss[1]
  ELSE ss[1] \o sep \o Join(sep, Tail(ss))

---------------------------------------------------------------------------
(* news_fetcher.py: constants *)

CACHE_TTL == 900

URL_TECHCRUNCH ==
  <<"h","t","t","p","s",":","/","/","f","e","e","d","s",".","f","e","e","d","b","u","r","n","e","r",".","c","o","m","/","T","e","c","h","C","r","u","n","c","h">>

URL_WIRED ==
  <<"h","t","t","p","s",":","/","/","w","w","w",".","w","i","r","e","d",".","c","o","m","/","f","e","e","d","/","r","s","s">>

URL_NYT_TECHNOLOGY ==
  <<"h","t","t","p","s",":","/","/","r","s","s",".","n","y","t","i","m","e","s",".","c","o","m","/","s","e","r","v","i","c","e","s","/","x","m","l","/","r","s","s","/","n","y","t","/","T","e","c","h","n","o","l","o","g","y",".","x","m","l">>

URL_BBC_BUSINESS ==
  <<"h","t","t","p","s",":","/","/","f","e","e","d","s",".","b","b","c","i",".","c","o",".","u","k","/","n","e","w","s","/","b","u","s","i","n","e","s","s","/","r","s","s",".","x","m","l">>

URL_NYT_BUSINESS ==
  <<"h","t","t","p","s",":","/","/","r","s","s",".","n","y","t","i","m","e","s",".","c","o","m","/","s","e","r","v","i","c","e","s","/","x","m","l","/","r","s","s","/","n","y","t","/","B","u","s","i","n","e","s","s",".","x","m","l">>

URL_BBC_SPORT ==
  <<"h","t","t","p","s",":","/","/","f","e","e","d","s",".","b","b","c","i",".","c","o",".","u","k","/","s","p","o","r","t","/","r","s","s",".","x","m","l">>

URL_BBC_HEALTH ==
  <<"h","t","t","p","s",":","/","/","f","e","e","d","s",".","b","b","c","i",".","c","o",".","u","k","/","n","e","w","s","/","h","e","a","l","t","h","/","r","s","s",".","x","m","l">>

URL_NYT_HEALTH ==
  <<"h","t","t","p","s",":","/","/","r","s","s",".","n","y","t","i","m","e","s",".","c","o","m","/","s","e","r","v","i","c","e","s","/","x","m","l","/","r","s","s","/","n","y","t","/","H","e","a","l","t","h",".","x","m","l">>

URL_BBC_SCIENCE ==
  <<"h","t","t","p","s",":","/","/","f","e","e","d","s",".","b","b","c","i",".","c","o",".","u","k","/","n","e","w","s","/","s","c","i","e","n","c","e","_","a","n","d","_","e","n","v","i","r","o","n","m","e","n","t","/","r","s","s",".","x","m","l">>

URL_NYT_SCIENCE ==
  <<"h","t","t","p","s",":","/","/","r","s","s",".","n","y","t","i","m","e","s",".","c","o","m","/","s","e","r","v","i","c","e","s","/","x","m","l","/","r","s","s","/","n","y","t","/","S","c","i","e","n","c","e",".","x","m","l">>

URL_BBC_WORLD ==
  <<"h","t","t","p","s",":","/","/","f","e","e","d","s",".","b","b","c","i",".","c","o",".","u","k","/","n","e","w","s","/","w","o","r","l","d","/","r","s","s",".","x","m","l">>

URL_REUTERS_WORLD ==
  <<"h","t","t","p","s",":","/","/","r","s","s",".","r","e","u","t","e","r","s",".","c","o","m","/","r","e","u","t","e","r","s","/","w","o","r","l","d","N","e","w","s">>

URL_ESPNCRICINFO ==
  <<"h","t","t","p","s",":","/","/","w","w","w",".","e","s","p","n","c","r","i","c","i","n","f","o",".","c","o","m","/","r","s","s","/","c","o","n","t","e","n","t","/","s","t","o","r","y","/","f","e","e","d","s","/","0",".","x","m","l">>

URL_BBC_POLITICS ==
  <<"h","t","t","p","s",":","/","/","f","e","e","d","s",".","b","b","c","i",".","c","o",".","u","k","/","n","e","w","s","/","p","o","l","i","t","i","c","s","/","r","s","s",".","x","m","l">>

URL_NYT_POLITICS ==
  <<"h","t","t","p","s",":","/","/","r","s","s",".","n","y","t","i","m","e","s",".","c","o","m","/","s","e","r","v","i","c","e","s","/","x","m","l","/","r","s","s","/","n","y","t","/","P","o","l","i","t","i","c","s",".","x","m","l">>

URL_BBC_ENTERTAINMENT ==
  <<"h","t","t","p","s",":","/","/","f","e","e","d","s",".","b","b","c","i",".","c","o",".","u","k","/","n","e","w","s","/","e","n","t","e","r","t","a","i","n","m","e","n","t","_","a","n","d","_","a","r","t","s","/","r","s","s",".","x","m","l">>

URL_BBC_NEWS ==
  <<"h","t","t","p","s",":","/","/","f","e","e","d","s",".","b","b","c","i",".","c","o",".","u","k","/","n","e","w","s","/","r","s","s",".","x","m","l">>

URL_NYT_HOMEPAGE ==
  <<"h","t","t","p","s",":","/","/","r","s","s",".","n","y","t","i","m","e","s",".","c","o","m","/","s","e","r","v","i","c","e","s","/","x","m","l","/","r","s","s","/","n","y","t","/","H","o","m","e","P","a","g","e",".","x","m","l">>

TOPIC_RSS_FEEDS ==
  [ technology |-> << URL_TECHCRUNCH, URL_WIRED, URL_NYT_TECHNOLOGY >>,
    business |-> << URL_BBC_BUSINESS, URL_NYT_BUSINESS >>,
    sports |-> << URL_BBC_SPORT >>,
    health |-> << URL_BBC_HEALTH, URL_NYT_HEALTH >>,
    science |-> << URL_BBC_SCIENCE, URL_NYT_SCIENCE >>,
    world |-> << URL_BBC_WORLD, URL_REUTERS_WORLD >>,
    cricket |-> << URL_ESPNCRICINFO >>,
    politics |-> << URL_BBC_POLITICS, URL_NYT_POLITICS >>,
    finance |-> << URL_BBC_BUSINESS >>,
    entertainment |-> << URL_BBC_ENTERTAINMENT >>,
    default |-> << URL_BBC_NEWS, URL_NYT_HOMEPAGE >> ]

GOOGLE_NEWS_RSS_HEAD ==
  <<"h","t","t","p","s",":","/","/","n","e","w","s",".","g","o","o","g","l","e",".","c","o","m","/","r","s","s","/","s","e","a","r","c","h","?","q","=">>

GOOGLE_NEWS_RSS_TAIL ==
  <<"&","h","l","=","e","n","-","I","N","&","g","l","=","I","N","&","c","e","i","d","=","I","N",":","e","n">>

mapping ==
  << [topic |-> "cricket", keywords |->
        << <<"c","r","i","c","k","e","t">>,
           <<"t","2","0">>,
           <<"i","p","l">>,
           <<"o","d","i">>,
           <<"t","e","s","t"," ","m","a","t","c","h">>,
           <<"b","c","c","i">>,
           <<"v","i","r","a","t">>,
           <<"r","o","h","i","t">> >>],
     [topic |-> "technology", keywords |->
        << <<"t","e","c","h">>,
           <<"a","i">>,
           <<"a","r","t","i","f","i","c","i","a","l"," ","i","n","t","e","l","l","i","g","e","n","c","e">>,
           <<"s","o","f","t","w","a","r","e">>,
           <<"a","p","p","l","e">>,
           <<"g","o","o","g","l","e">>,
           <<"m","i","c","r","o","s","o","f","t">>,
           <<"s","t","a","r","t","u","p">>,
           <<"c","o","d","i","n","g">>,
           <<"c","o","m","p","u","t","e","r">> >>],
     [topic |-> "business", keywords |->
        << <<"b","u","s","i","n","e","s","s">>,
           <<"e","c","o","n","o","m","y">>,
           <<"t","r","a","d","e">>,
           <<"c","o","m","p","a","n","y">>,
           <<"m","a","r","k","e","t">>,
           <<"g","d","p">>,
           <<"s","t","a","r","t","u","p">> >>],
     [topic |-> "sports", keywords |->
        << <<"s","p","o","r","t">>,
           <<"f","o","o","t","b","a","l","l">>,
           <<"s","o","c","c","e","r">>,
           <<"t","e","n","n","i","s">>,
           <<"h","o","c","k","e","y">>,
           <<"b","a","s","k","e","t","b","a","l","l">>,
           <<"o","l","y","m","p","i","c","s">> >>],
     [topic |-> "health", keywords |->
        << <<"h","e","a","l","t","h">>,
           <<"m","e","d","i","c","a","l">>,
           <<"h","o","s","p","i","t","a","l">>,
           <<"d","i","s","e","a","s","e">>,
           <<"v","a","c","c","i","n","e">>,
           <<"c","o","v","i","d">>,
           <<"d","o","c","t","o","r">> >>],
     [topic |-> "science", keywords |->
        << <<"s","c","i","e","n","c","e">>,
           <<"s","p","a","c","e">>,
           <<"n","a","s","a">>,
           <<"c","l","i","m","a","t","e">>,
           <<"r","e","s","e","a","r","c","h">>,
           <<"d","i","s","c","o","v","e","r","y">> >>],
     [topic |-> "world", keywords |->
        << <<"w","o","r","l","d">>,
           <<"i","n","t","e","r","n","a","t","i","o","n","a","l">>,
           <<"g","l","o","b","a","l">>,
           <<"w","a","r">>,
           <<"c","o","n","f","l","i","c","t">>,
           <<"u","k","r","a","i","n","e">>,
           <<"r","u","s","s","i","a">> >>],
     [topic |-> "politics", keywords |->
        << <<"p","o","l","i","t","i","c","s">>,
           <<"e","l","e","c","t","i","o","n">>,
           <<"g","o","v","e","r","n","m","e","n","t">>,
           <<"p","a","r","l","i","a","m","e","n","t">>,
           <<"m","i","n","i","s","t","e","r">>,
           <<"p","r","e","s","i","d","e","n","t">> >>],
     [topic |-> "finance", keywords |->
        << <<"f","i","n","a","n","c","e">>,
           <<"s","t","o","c","k">>,
           <<"g","o","l","d">>,
           <<"p","r","i","c","e">>,
           <<"b","a","n","k">>,
           <<"i","n","v","e","s","t">>,
           <<"r","u","p","e","e">>,
           <<"d","o","l","l","a","r">> >>],
     [topic |-> "entertainment", keywords |->
        << <<"m","o","v","i","e">>,
           <<"f","i","l","m">>,
           <<"c","e","l","e","b","r","i","t","y">>,
           <<"b","o","l","l","y","w","o","o","d">>,
           <<"h","o","l","l","y","w","o","o","d">>,
           <<"m","u","s","i","c">>,
           <<"a","c","t","o","r">> >>] >>

SEARCH_MAX_ITEMS == 15

TOPIC_MAX_ITEMS == 8

SPARSE_SEARCH == 5

ENOUGH_DOCS == 10

TOO_FEW_DOCS == 3

DEFAULT_MAX_ITEMS == 8

TITLE_PREFIX == <<"T","i","t","l","e",":"," ">>

SUMMARY_PREFIX == <<"\n","\n","S","u","m","m","a","r","y",":"," ">>

---------------------------------------------------------------------------
(* news_fetcher.py: pure helpers *)

\* re.sub(r"<[^>]+>", "", text): a tag is "<", one or more characters other
\* than ">", then ">"; "<>" is no tag and a "<" never closed stays.
RECURSIVE StripTags(_)
StripTags(s) ==
  LET opens == {i \in 1..Len(s) : s[i] = "<"} IN
  IF opens = {} THEN s
  ELSE LET i == CHOOSE k \in opens : \A m \in opens : k <= m
           closes == {j \in (i + 1)..Len(s) : s[j] = ">"} IN
       IF closes = {} THEN s
       ELSE LET j == CHOOSE k \in closes : \A m \in closes : k <= m IN
            IF j = i + 1 THEN SubSeq(s, 1, i) \o StripTags(SubSeq(s, i + 1, Len(s)))
            ELSE SubSeq(s, 1, i - 1) \o StripTags(SubSeq(s, j + 1, Len(s)))

_clean(text) == IF text = <<>> THEN <<>> ELSE Strip(StripTags(text))

_cache_key(topic) == Strip(Lower(topic))

_is_fresh_inclusive(c, t, key) ==
  IF key \notin DOMAIN c THEN FALSE
  ELSE (t - c[key].ts) <= CACHE_TTL

_is_fresh_inverted(c, t, key) ==
  IF key \notin DOMAIN c THEN FALSE
  ELSE (t - c[key].ts) > CACHE_TTL

_is_fresh(c, t, key) ==
  IF key \notin DOMAIN c THEN FALSE
  ELSE (t - c[key].ts) < CACHE_TTL

RECURSIVE DetectFrom(_, _)
DetectFrom(q, i) ==
  IF i > Len(mapping) THEN "default"
  ELSE IF \E k \in 1..Len(mapping[i].keywords) : Contains(mapping[i].keywords[k], q)
       THEN mapping[i].topic
       ELSE DetectFrom(q, i + 1)

_detect_topic_cased(query) == DetectFrom(query, 1)

_detect_topic(query) == DetectFrom(Lower(query), 1)

\* requests.utils.quote: letters, digits and "_.-~/" pass; every other
\* character becomes a percent escape of its UTF-8 bytes.
PercentCodes ==
  (" " :> <<"%","2","0">>) @@ ("'" :> <<"%","2","7">>) @@ ("?" :> <<"%","3","F">>)

quote(s) == Concat([i \in 1..Len(s) |->
                     IF s[i] \in DOMAIN PercentCodes THEN PercentCodes[s[i]] ELSE <<s[i]>>])

SearchUrl(query) == GOOGLE_NEWS_RSS_HEAD \o quote(query) \o GOOGLE_NEWS_RSS_TAIL

---------------------------------------------------------------------------
(* The feeds: what feedparser.parse(url) finds at a URL.  A feed either   *)
(* makes the parse raise, or yields a title and a list of raw entries;    *)
(* converting an entry may itself raise (a field that is not text).       *)

FeedTags ==
  << [url |-> URL_TECHCRUNCH, tag |-> "a"],
     [url |-> URL_WIRED, tag |-> "b"],
     [url |-> URL_NYT_TECHNOLOGY, tag |-> "c"],
     [url |-> URL_BBC_BUSINESS, tag |-> "d"],
     [url |-> URL_NYT_BUSINESS, tag |-> "e"],
     [url |-> URL_BBC_SPORT, tag |-> "f"],
     [url |-> URL_BBC_HEALTH, tag |-> "g"],
     [url |-> URL_NYT_HEALTH, tag |-> "h"],
     [url |-> URL_BBC_SCIENCE, tag |-> "i"],
     [url |-> URL_NYT_SCIENCE, tag |-> "j"],
     [url |-> URL_BBC_WORLD, tag |-> "k"],
     [url |-> URL_REUTERS_WORLD, tag |-> "l"],
     [url |-> URL_ESPNCRICINFO, tag |-> "m"],
     [url |-> URL_BBC_POLITICS, tag |-> "n"],
     [url |-> URL_NYT_POLITICS, tag |-> "o"],
     [url |-> URL_BBC_ENTERTAINMENT, tag |-> "p"],
     [url |-> URL_BBC_NEWS, tag |-> "q"],
     [url |-> URL_NYT_HOMEPAGE, tag |-> "r"] >>

TagIn(tags, url) ==
  IF \E i \in 1..Len(tags) : tags[i].url = url
  THEN tags[CHOOSE i \in 1..Len(tags) : tags[i].url = url].tag
  ELSE "s"

\* the one-character name of the feed at url ("s": a search feed)
Tag(url) == TagIn(FeedTags, url)

Digits == <<"1","2","3","4","5","6","7","8","9","A","B","C","D","E","F","G","H">>

\* What a feed serves: n entries, entry j with a summary of sumLen + (j-1)*step
\* characters (edge4: contents of 1199, 1200, 1201 and 1202 characters).
Shapes ==
  [ down    |-> [raises |-> TRUE , n |-> 0 , shared |-> FALSE, badAt |-> 0, blankAt |-> 0, sumLen |-> 1   , step |-> 0],
    n2      |-> [raises |-> FALSE, n |-> 2 , shared |-> FALSE, badAt |-> 0, blankAt |-> 0, sumLen |-> 1   , step |-> 0],
    n4      |-> [raises |-> FALSE, n |-> 4 , shared |-> FALSE, badAt |-> 0, blankAt |-> 0, sumLen |-> 1   , step |-> 0],
    n5      |-> [raises |-> FALSE, n |-> 5 , shared |-> FALSE, badAt |-> 0, blankAt |-> 0, sumLen |-> 1   , step |-> 0],
    n9      |-> [raises |-> FALSE, n |-> 9 , shared |-> FALSE, badAt |-> 0, blankAt |-> 0, sumLen |-> 1   , step |-> 0],
    n16     |-> [raises |-> FALSE, n |-> 16, shared |-> FALSE, badAt |-> 0, blankAt |-> 0, sumLen |-> 1   , step |-> 0],
    partial |-> [raises |-> FALSE, n |-> 4 , shared |-> FALSE, badAt |-> 3, blankAt |-> 0, sumLen |-> 1   , step |-> 0],
    wire3   |-> [raises |-> FALSE, n |-> 3 , shared |-> TRUE , badAt |-> 0, blankAt |-> 0, sumLen |-> 1   , step |-> 0],
    blank9  |-> [raises |-> FALSE, n |-> 9 , shared |-> FALSE, badAt |-> 0, blankAt |-> 2, sumLen |-> 1   , step |-> 0],
    long9   |-> [raises |-> FALSE, n |-> 9 , shared |-> FALSE, badAt |-> 0, blankAt |-> 0, sumLen |-> 1300, step |-> 0],
    edge4   |-> [raises |-> FALSE, n |-> 4 , shared |-> FALSE, badAt |-> 0, blankAt |-> 0, sumLen |-> 1179, step |-> 1] ]

EntryTitle(sh, j, base) ==
  IF j = sh.blankAt THEN <<" ","<","b","r","/",">"," ">>
  ELSE IF j = 1 THEN <<"<","b",">">> \o base \o <<"<","/","b",">">>
  ELSE base

\* Entry j of the feed named `tag`: a wire story carries the same title in
\* every feed and a summary of its own; the first title comes in markup.
RawEntry(tag, sh, j) ==
  [ title     |-> EntryTitle(sh, j, <<(IF sh.shared THEN "W" ELSE tag), Digits[j]>>),
    summary   |-> [i \in 1..(sh.sumLen + (j - 1) * sh.step) |-> tag],
    link      |-> <<"/", tag, Digits[j]>>,
    published |-> <<>>,
    bad       |-> (j = sh.badAt) ]

\* a world names the shape of the search feed and of each bucket feed
ShapeAt(w, tag) == IF tag \in DOMAIN w.feeds THEN w.feeds[tag] ELSE w.search

FeedOf(sh, tag) ==
  [ raises  |-> sh.raises,
    title   |-> <<"F", tag>>,
    entries |-> [j \in 1..sh.n |-> RawEntry(tag, sh, j)] ]

FeedNamed(w, tag) == FeedOf(Shapes[ShapeAt(w, tag)], tag)

\* feedparser.parse(url) in world w
Feed(w, url) == FeedNamed(w, Tag(url))

---------------------------------------------------------------------------
(* news_fetcher.py: fetching *)

Document(title, summary, link, source, pub) ==
  [ page_content |-> TITLE_PREFIX \o title \o SUMMARY_PREFIX \o summary,
    metadata     |-> [title |-> title, url |-> link, source |-> source, date |-> pub] ]

\* one pass of the loop body of _fetch_rss, the entry's title cleaned
Converted(e, title, source, docs) ==
  IF title = <<>> THEN docs
  ELSE Append(docs, Document(title, _clean(e.summary), e.link, source, e.published))

\* The loop of _fetch_rss over feed.entries[:max_items]; `failed` tells that
\* an exception ended it and `docs` is the list as the exception left it.
RECURSIVE ConvertEntries(_, _, _)
ConvertEntries(entries, source, docs) ==
  IF entries = <<>> THEN [docs |-> docs, failed |-> FALSE]
  ELSE IF Head(entries).bad THEN [docs |-> docs, failed |-> TRUE]
  ELSE ConvertEntries(Tail(entries), source,
                      Converted(Head(entries), _clean(Head(entries).title), source, docs))

ParseFeed_backfill(feed, max_items) ==
  IF feed.raises THEN [docs |-> <<>>, failed |-> TRUE]
  ELSE [ConvertEntries(feed.entries, feed.title, <<>>) EXCEPT !.docs = Take(@, max_items)]

ParseFeed(feed, max_items) ==
  IF feed.raises THEN [docs |-> <<>>, failed |-> TRUE]
  ELSE ConvertEntries(Take(feed.entries, max_items), feed.title, <<>>)

\* the try block of _fetch_rss
TryBody(w, url, max_items) == ParseFeed(Feed(w, url), max_items)

Caught_reraised(body) ==
  [kind |-> IF body.failed THEN "raise" ELSE "return", docs |-> body.docs, failed |-> body.failed]

\* except Exception: log; then return docs
Caught(body) == [kind |-> "return", docs |-> body.docs, failed |-> body.failed]

_fetch_rss(w, url, max_items) == Caught(TryBody(w, url, max_items))

_fetch_google_news_rss(w, query, max_items) == _fetch_rss(w, SearchUrl(query), max_items)

\* One more fetch appended to the running list; an exception that escapes
\* the fetch escapes fetch_news too.
Fetched(acc, tier, url, max_items, r) ==
  [docs     |-> IF r.kind = "raise" THEN acc.docs ELSE acc.docs \o r.docs,
   fetched  |-> Append(acc.fetched,
                       [tier |-> tier, url |-> url, max_items |-> max_items,
                        n |-> Len(r.docs), failed |-> r.failed, kind |-> r.kind]),
   detected |-> acc.detected,
   kind     |-> r.kind]

NothingFetched == [docs |-> <<>>, fetched |-> <<>>, detected |-> "", kind |-> "return"]

\* docs = _fetch_google_news_rss(topic, max_items=15)
SearchTier(w, topic) ==
  Fetched(NothingFetched, 1, SearchUrl(topic), SEARCH_MAX_ITEMS,
          _fetch_google_news_rss(w, topic, SEARCH_MAX_ITEMS))

\* for feed_url in feeds: docs += _fetch_rss(feed_url, 8); break at >= 10
RECURSIVE TopicTier(_, _, _)
RECURSIVE TopicNext(_, _, _)
TopicNext_exhaustive(w, feeds, acc) == TopicTier(w, Tail(feeds), acc)

TopicNext(w, feeds, acc) ==
  IF acc.kind = "return" /\ Len(acc.docs) >= ENOUGH_DOCS THEN acc
  ELSE TopicTier(w, Tail(feeds), acc)

TopicTier(w, feeds, acc) ==
  IF feeds = <<>> \/ acc.kind = "raise" THEN acc
  ELSE TopicNext(w, feeds, Fetched(acc, 2, Head(feeds), TOPIC_MAX_ITEMS,
                                   _fetch_rss(w, Head(feeds), TOPIC_MAX_ITEMS)))

\* TOPIC_RSS_FEEDS.get(detected, TOPIC_RSS_FEEDS["default"])
FeedsOf(table, detected) == IF detected \in DOMAIN table THEN table[detected] ELSE table["default"]

TopicStart(w, detected, acc) ==
  TopicTier(w, FeedsOf(TOPIC_RSS_FEEDS, detected), [acc EXCEPT !.detected = detected])

\* if len(docs) < 5: the topic bucket's feeds
AfterSearch(w, topic, acc) ==
  IF acc.kind = "return" /\ Len(acc.docs) < SPARSE_SEARCH
  THEN TopicStart(w, _detect_topic(topic), acc)
  ELSE acc

\* for feed_url in TOPIC_RSS_FEEDS["default"]: docs += _fetch_rss(feed_url, 8)
RECURSIVE DefaultTier(_, _, _)
DefaultTier_uncapped(w, feeds, acc) ==
  IF feeds = <<>> \/ acc.kind = "raise" THEN acc
  ELSE DefaultTier(w, Tail(feeds),
                   Fetched(acc, 3, Head(feeds), 10, _fetch_rss(w, Head(feeds), 10)))

DefaultTier(w, feeds, acc) ==
  IF feeds = <<>> \/ acc.kind = "raise" THEN acc
  ELSE DefaultTier(w, Tail(feeds),
                   Fetched(acc, 3, Head(feeds), DEFAULT_MAX_ITEMS,
                           _fetch_rss(w, Head(feeds), DEFAULT_MAX_ITEMS)))

AfterTopic_empty(w, acc) ==
  IF acc.kind = "return" /\ Len(acc.docs) = 0
  THEN DefaultTier(w, TOPIC_RSS_FEEDS["default"], acc)
  ELSE acc

\* if len(docs) < 3: the default bucket's feeds
AfterTopic(w, acc) ==
  IF acc.kind = "return" /\ Len(acc.docs) < TOO_FEW_DOCS
  THEN DefaultTier(w, TOPIC_RSS_FEEDS["default"], acc)
  ELSE acc

Dedup_none(docs, seen, unique) == docs

\* Deduplicate by title: seen set, first occurrence kept.
RECURSIVE Dedup(_, _, _)
Dedup(docs, seen, unique) ==
  IF docs = <<>> THEN unique
  ELSE IF Head(docs).metadata.title # <<>> /\ Head(docs).metadata.title \notin seen
       THEN Dedup(Tail(docs), seen \cup {Head(docs).metadata.title}, Append(unique, Head(docs)))
       ELSE Dedup(Tail(docs), seen, unique)

CallRecord(kind, result, key, topic, hours, hit, acc) ==
  [ kind |-> kind, result |-> result, key |-> key, topic |-> topic, hours |-> hours,
    hit |-> hit, detected |-> acc.detected, docs |-> acc.docs, fetched |-> acc.fetched ]

Store_purging(c, t, key, topic, hours, acc, unique) ==
  [ cache |-> [k \in {k2 \in DOMAIN c : t - c[k2].ts < CACHE_TTL} \cup {key} |->
                 IF k = key THEN [data |-> unique, ts |-> t] ELSE c[k]],
    call  |-> CallRecord("return", unique, key, topic, hours, FALSE, acc) ]

\* _cache[key] = {"data": unique, "ts": time.time()}; return unique
Store(c, t, key, topic, hours, acc, unique) ==
  [ cache |-> [k \in DOMAIN c \cup {key} |-> IF k = key THEN [data |-> unique, ts |-> t] ELSE c[k]],
    call  |-> CallRecord("return", unique, key, topic, hours, FALSE, acc) ]

Finish_unlessFresh(c, t, key, topic, hours, acc) ==
  IF acc.kind = "raise"
  THEN [cache |-> c, call |-> CallRecord("raise", <<>>, key, topic, hours, FALSE, acc)]
  ELSE IF _is_fresh(c, t, key)
  THEN [cache |-> c, call |-> CallRecord("return", c[key].data, key, topic, hours, FALSE, acc)]
  ELSE Store(c, t, key, topic, hours, acc, Dedup(acc.docs, {}, <<>>))

Finish(c, t, key, topic, hours, acc) ==
  IF acc.kind = "raise"
  THEN [cache |-> c, call |-> CallRecord("raise", <<>>, key, topic, hours, FALSE, acc)]
  ELSE Store(c, t, key, topic, hours, acc, Dedup(acc.docs, {}, <<>>))

Lookup_windowed(c, t, w, topic, hours, key) ==
  IF hours >= 48 /\ _is_fresh(c, t, key)
  THEN [cache |-> c, call |-> CallRecord("return", c[key].data, key, topic, hours, TRUE, NothingFetched)]
  ELSE Finish(c, t, key, topic, hours, AfterTopic(w, AfterSearch(w, topic, SearchTier(w, topic))))

Lookup(c, t, w, topic, hours, key) ==
  IF _is_fresh(c, t, key)
  THEN [cache |-> c, call |-> CallRecord("return", c[key].data, key, topic, hours, TRUE, NothingFetched)]
  ELSE Finish(c, t, key, topic, hours, AfterTopic(w, AfterSearch(w, topic, SearchTier(w, topic))))

\* fetch_news(topic, hours) against cache c at time t in world w: the cache
\* afterwards and the record of the call (what it returned or that it
\* raised, and what it did).
fetch_news(c, t, w, topic, hours) == Lookup(c, t, w, topic, hours, _cache_key(topic))

---------------------------------------------------------------------------
(* app.py: the briefing orchestrator *)

TOPIC_CHARS == 50

FIRST_HOURS == 48

RETRY_HOURS == 24

MAX_ARTICLES == 8

PIECE_CHARS == 1200

CONTEXT_CHARS == 12000

SEPARATOR == <<"\n","\n","-","-","-","\n","\n">>

LATEST_NEWS == <<"l","a","t","e","s","t"," ","n","e","w","s">>

\* The answer texts are only ever compared, so they are kept whole.
PLACEHOLDER_KEY == "your_gemini_key_here"

SET_KEY_MSG == "Set GEMINI_API_KEY in .env"

NO_NEWS_MSG == "No news articles found."

MODEL_TEXT == "briefing"

MODEL_ERROR == "model call failed"

FEED_ERROR == "feed error"

ERROR_PREFIX == "Error: "

KeyMissing_emptyOnly(key) == key = ""

KeyMissing(key) == key = "" \/ key = PLACEHOLDER_KEY

QuestionTopic_whole(question) == question

QuestionTopic(question) == Take(question, TOPIC_CHARS)

Pieces_uncut(docs) == [i \in 1..Len(docs) |-> docs[i].page_content]

Pieces(docs) == [i \in 1..Len(docs) |-> Take(docs[i].page_content, PIECE_CHARS)]

Sources_swapped(docs) ==
  [i \in 1..Len(docs) |->
     [title |-> docs[i].metadata.title, source |-> docs[i].metadata.url, url |-> docs[i].metadata.source]]

Sources(docs) ==
  [i \in 1..Len(docs) |->
     [title |-> docs[i].metadata.title, source |-> docs[i].metadata.source, url |-> docs[i].metadata.url]]

BuildContext(docs) == Take(Join(SEPARATOR, Pieces(Take(docs, MAX_ARTICLES))), CONTEXT_CHARS)

Outcome(kind, answer, sources, c, fs, sent) ==
  [kind |-> kind, answer |-> answer, sources |-> sources, cache |-> c, calls |-> fs, llm |-> sent]

\* answer = call_gemini(SYS_PROMPT, user_prompt); return answer, sources.
\* call_gemini receives the context and the question inside the user prompt;
\* it returns the model's text iff `up` and raises otherwise.
CallModel(up, sent, sources, c, fs) ==
  IF up THEN Outcome("return", MODEL_TEXT, sources, c, fs, <<[sent EXCEPT !.ok = TRUE]>>)
  ELSE Outcome("raise", MODEL_ERROR, <<>>, c, fs, <<[sent EXCEPT !.ok = FALSE]>>)

\* from "if not docs" on, `last` being the fetch_news call that gave docs
Compose(up, question, before, last) ==
  IF last.call.kind = "raise"
  THEN Outcome("raise", FEED_ERROR, <<>>, last.cache, Append(before, last.call), <<>>)
  ELSE IF last.call.result = <<>>
  THEN Outcome("return", NO_NEWS_MSG, <<>>, last.cache, Append(before, last.call), <<>>)
  ELSE CallModel(up,
                 [context |-> BuildContext(last.call.result), question |-> question, ok |-> up],
                 Sources(Take(last.call.result, MAX_ARTICLES)),
                 last.cache, Append(before, last.call))

\* if not docs: docs = fetch_news(topic="latest news", hours=24)
AfterFirst(t, w, up, question, f1) ==
  IF f1.call.kind = "return" /\ f1.call.result = <<>>
  THEN Compose(up, question, <<f1.call>>, fetch_news(f1.cache, t, w, LATEST_NEWS, RETRY_HOURS))
  ELSE Compose(up, question, <<>>, f1)

\* answer_question(question) with credential `key`, against cache c at time t
\* in world w, the model call succeeding iff `up`: how it ends (a returned
\* pair or a raised exception), the cache afterwards and the calls it made.
answer_question(key, c, t, w, up, question) ==
  IF KeyMissing(key)
  THEN Outcome("return", SET_KEY_MSG, <<>>, c, <<>>, <<>>)
  ELSE AfterFirst(t, w, up, question,
                  fetch_news(c, t, w, QuestionTopic(question), FIRST_HOURS))

---------------------------------------------------------------------------
(* app.py: session state and the chat input handler *)

NEW_CHAT_TITLE == <<"N","e","w"," ","C","h","a","t">>

TITLE_CHARS == 28

\* the one character U+2026
ELLIPSIS == <<"...">>

\* st.session_state as the script first sets it; active 0 stands for None
NoSession == [chats |-> <<>>, active |-> 0]

new_chat(s) ==
  [chats  |-> <<[id |-> Len(s.chats) + 1, title |-> NEW_CHAT_TITLE, msgs |-> <<>>]>> \o s.chats,
   active |-> Len(s.chats) + 1]

\* the place in s.chats of the chat get_chat() returns, 0 for None
get_chat(s) ==
  IF s.active = 0 \/ ~(\E i \in 1..Len(s.chats) : s.chats[i].id = s.active) THEN 0
  ELSE CHOOSE i \in 1..Len(s.chats) :
         /\ s.chats[i].id = s.active
         /\ \A j \in 1..Len(s.chats) : s.chats[j].id = s.active => i <= j

\* if not chat: chat = new_chat()
Opened(s) == IF get_chat(s) = 0 THEN new_chat(s) ELSE s

Titled(chat, q) ==
  IF chat.title = NEW_CHAT_TITLE
  THEN [chat EXCEPT !.title = Take(q, TITLE_CHARS) \o (IF Len(q) > TITLE_CHARS THEN ELLIPSIS ELSE <<>>)]
  ELSE chat

Said(chat, m) == [chat EXCEPT !.msgs = Append(@, m)]

Asked(s, q) ==
  [s EXCEPT !.chats[get_chat(s)] = Said(Titled(@, q), [role |-> "user", text |-> q])]

Recorded_uncaught(a) == [text |-> <<a.answer>>, sources |-> a.sources]

\* try: answer, sources = answer_question(q)
\* except Exception as e: answer = f"Error: {str(e)}"; sources = []
\* (an answer text is the list of its parts)
Recorded(a) ==
  IF a.kind = "raise" THEN [text |-> <<ERROR_PREFIX, a.answer>>, sources |-> <<>>]
  ELSE [text |-> <<a.answer>>, sources |-> a.sources]

Replied(s, r) ==
  [s EXCEPT !.chats[get_chat(s)] = Said(@, [role |-> "ai", text |-> r.text, sources |-> r.sources])]

---------------------------------------------------------------------------
(* Bounds and inputs *)

MaxNow == 900

TickSteps == {450, 900}

Q_AI_PADDED == <<" ","A","I"," ">>

Q_ai == <<"a","i">>

\* 51 characters whose first 50, trimmed, read "latest news"
Q_LONG == LATEST_NEWS \o [i \in 1..39 |-> " "] \o <<"x">>

Topics == {Q_AI_PADDED, Q_ai, LATEST_NEWS}

Hours == {FIRST_HOURS}

BothHours == {FIRST_HOURS, RETRY_HOURS}

\* steps of the clock that bring an entry to 899 and to 900 seconds of age
BoundarySteps == {450, 899, 900}

Questions == {Q_AI_PADDED, Q_LONG}

ApiKeys == {"", PLACEHOLDER_KEY, "AIza-key"}

FeedNames == {FeedTags[i].tag : i \in 1..Len(FeedTags)}

World(s, f) == [search |-> s, feeds |-> [g \in FeedNames |-> f]]

MainWorlds == {World("down", "down"), World("n16", "n9"), World("partial", "wire3")}

\* Worlds for a single call: the search feed and, by its place in its
\* bucket's list, each topic feed and each default feed has a shape of its
\* own; a topic feed at a place beyond ps is down.
SearchShapes == {"down", "n2", "n4", "n5", "n16"}

TopicShapes == {"down", "n2", "n5", "n9"}

DefaultShapes == {"down", "n2", "n9", "wire3"}

IsDefaultFeed(g) ==
  \E i \in 1..Len(TOPIC_RSS_FEEDS["default"]) : Tag(TOPIC_RSS_FEEDS["default"][i]) = g

PlaceOf(g) ==
  CHOOSE i \in 1..3 :
    \E b \in DOMAIN TOPIC_RSS_FEEDS :
      i <= Len(TOPIC_RSS_FEEDS[b]) /\ Tag(TOPIC_RSS_FEEDS[b][i]) = g

Places == [g \in FeedNames |-> [dflt |-> IsDefaultFeed(g), place |-> PlaceOf(g)]]

LayeredWorld(s, ps, ds) ==
  [search |-> s,
   feeds  |-> [g \in FeedNames |->
                 IF Places[g].dflt THEN ds[Places[g].place]
                 ELSE IF Places[g].place \in DOMAIN ps THEN ps[Places[g].place]
                 ELSE "down"]]

\* the worlds that differ in a feed a call for query q can reach
WorldsFor(q) ==
  {LayeredWorld(s, ps, ds) :
     s \in SearchShapes,
     ps \in [1..(IF _detect_topic(q) = "default" THEN 0
                 ELSE Len(FeedsOf(TOPIC_RSS_FEEDS, _detect_topic(q)))) -> TopicShapes],
     ds \in [1..Len(TOPIC_RSS_FEEDS["default"]) -> DefaultShapes]}

Q_T20 == <<"l","a","t","e","s","t"," ","T","2","0"," ","m","a","t","c","h"," ","h","i","g","h","l","i","g","h","t","s">>

Q_RANDOM == <<"r","a","n","d","o","m"," ","u","n","r","e","l","a","t","e","d"," ","w","o","r","d","s">>

Q_CRICKET_STARTUP == <<"c","r","i","c","k","e","t"," ","s","t","a","r","t","u","p">>

Q_STARTUP == <<"S","t","a","r","t","u","p"," ","f","u","n","d","i","n","g">>

Q_GOLD == <<"G","o","l","d"," ","p","r","i","c","e">>

Q_WHATS == <<"W","h","a","t","'","s"," ","h","a","p","p","e","n","i","n","g"," ","i","n"," ","A","I"," ","t","o","d","a","y","?">>

Queries == {Q_T20, Q_RANDOM, Q_CRICKET_STARTUP, Q_STARTUP, Q_GOLD, Q_WHATS}

MaxTurns == 2

MaxChats == 2

Q_BLANK == <<" "," ">>

Inputs == {Q_BLANK, Q_AI_PADDED}

ChatWorlds == {World("down", "down"), World("n2", "n2")}

\* worlds whose feeds serve long articles
ContextWorlds ==
  {LayeredWorld(s, ps, ds) :
     s \in {"down", "n2", "edge4", "long9"},
     ps \in [1..3 -> {"down", "long9"}],
     ds \in [1..2 -> {"down", "edge4"}]}

\* inputs of a single _fetch_rss call: every shape of feed, a bucket feed, a
\* default feed and a search feed, and the max_items of the callers (8, 15),
\* the default (10) and small ones
FeedWorlds == {World(s, s) : s \in DOMAIN Shapes}

FeedUrls == {URL_TECHCRUNCH, URL_BBC_NEWS, SearchUrl(Q_ai)}

MaxItemsValues == {0, 1, 2, 8, 10, 15}

\* two script threads calling fetch_news at once
Threads == {1, 2}

RaceTopics == {Q_ai, Q_AI_PADDED, LATEST_NEWS}

RaceWorlds == {World("n5", "n2"), World("n2", "n2")}

RaceStep == 450

EmptyCache == [k \in {} |-> 0]

NoRet == [kind |-> "none", answer |-> "", sources |-> <<>>]

\* instrumentation: remember which topic's call stored each entry
Stamp(wr, fs) ==
  LET stores(k) == {i \in 1..Len(fs) : fs[i].key = k /\ ~fs[i].hit /\ fs[i].kind = "return"}
      stored    == {fs[i].key : i \in {j \in 1..Len(fs) : ~fs[j].hit /\ fs[j].kind = "return"}}
  IN [k \in DOMAIN wr \cup stored |->
        IF k \in stored THEN fs[CHOOSE i \in stores(k) : \A j \in stores(k) : j <= i].topic
        ELSE wr[k]]

---------------------------------------------------------------------------
(* Actions *)

Init ==
  /\ apiKey \in ApiKeys
  /\ cache = EmptyCache
  /\ writer = EmptyCache
  /\ now = 0
  /\ world \in MainWorlds
  /\ op = "init"
  /\ arg = <<>>
  /\ calls = <<>>
  /\ llm = <<>>
  /\ ret = NoRet
  /\ session = NoSession

Quiet(name) ==
  /\ op' = name
  /\ arg' = <<>>
  /\ calls' = <<>>
  /\ llm' = <<>>
  /\ ret' = NoRet

FetchNewsDone(topic, f) ==
  /\ op' = "fetch_news"
  /\ arg' = topic
  /\ calls' = <<f.call>>
  /\ cache' = f.cache
  /\ writer' = Stamp(writer, <<f.call>>)
  /\ llm' = <<>>
  /\ ret' = NoRet
  /\ UNCHANGED <<apiKey, now, world, session>>

\* a direct call of news_fetcher.fetch_news
FetchNews ==
  \E topic \in Topics, hours \in Hours :
    FetchNewsDone(topic, fetch_news(cache, now, world, topic, hours))

AnswerDone(q, a) ==
  /\ op' = "answer_question"
  /\ arg' = q
  /\ calls' = a.calls
  /\ cache' = a.cache
  /\ writer' = Stamp(writer, a.calls)
  /\ llm' = a.llm
  /\ ret' = [kind |-> a.kind, answer |-> a.answer, sources |-> a.sources]
  /\ UNCHANGED <<apiKey, now, world, session>>

\* a direct call of app.answer_question
AnswerQuestion ==
  \E q \in Questions, up \in BOOLEAN :
    AnswerDone(q, answer_question(apiKey, cache, now, world, up, q))

\* news_fetcher.clear_cache
ClearCache ==
  /\ cache' = EmptyCache
  /\ writer' = EmptyCache
  /\ Quiet("clear_cache")
  /\ UNCHANGED <<apiKey, now, world, session>>

\* time passes
Tick ==
  \E d \in TickSteps :
    /\ now + d <= MaxNow
    /\ now' = now + d
    /\ Quiet("tick")
    /\ UNCHANGED <<apiKey, cache, writer, world, session>>

\* the feeds change what they serve (outage, recovery, new stories)
WorldChange ==
  \E w \in MainWorlds :
    /\ w # world
    /\ world' = w
    /\ Quiet("world")
    /\ UNCHANGED <<apiKey, cache, writer, now, session>>

\* One call of fetch_news on an empty cache, over many worlds and queries;
\* arg holds the query of the call to come.
InitFetch ==
  /\ apiKey = "AIza-key"
  /\ cache = EmptyCache
  /\ writer = EmptyCache
  /\ now = 0
  /\ arg \in Queries
  /\ world \in WorldsFor(arg)
  /\ op = "init"
  /\ calls = <<>>
  /\ llm = <<>>
  /\ ret = NoRet
  /\ session = NoSession

FetchQuery ==
  /\ op = "init"
  /\ FetchNewsDone(arg, fetch_news(cache, now, world, arg, FIRST_HOURS))

SpecFetch == InitFetch /\ [][FetchQuery]_vars

\* The script's chat input handler, run with the submitted text `query`:
\* empty or blank text stops the run before anything is recorded.
SubmitDone_failureUnrecorded(query, a) ==
  /\ op' = "submit"
  /\ arg' = query
  /\ calls' = a.calls
  /\ cache' = a.cache
  /\ writer' = Stamp(writer, a.calls)
  /\ llm' = a.llm
  /\ ret' = [kind |-> a.kind, answer |-> a.answer, sources |-> a.sources]
  /\ session' = IF a.kind = "raise" THEN Asked(Opened(session), Strip(query))
                ELSE Replied(Asked(Opened(session), Strip(query)), Recorded(a))
  /\ UNCHANGED <<apiKey, now, world>>

SubmitDone(query, a) ==
  /\ op' = "submit"
  /\ arg' = query
  /\ calls' = a.calls
  /\ cache' = a.cache
  /\ writer' = Stamp(writer, a.calls)
  /\ llm' = a.llm
  /\ ret' = [kind |-> a.kind, answer |-> a.answer, sources |-> a.sources]
  /\ session' = Replied(Asked(Opened(session), Strip(query)), Recorded(a))
  /\ UNCHANGED <<apiKey, now, world>>

Submit ==
  \E query \in Inputs, up \in BOOLEAN :
    IF Strip(query) = <<>>
    THEN /\ op' = "submit"
         /\ arg' = query
         /\ calls' = <<>>
         /\ llm' = <<>>
         /\ ret' = NoRet
         /\ UNCHANGED <<apiKey, cache, writer, now, world, session>>
    ELSE /\ Len(Opened(session).chats[get_chat(Opened(session))].msgs) < 2 * MaxTurns
         /\ SubmitDone(query, answer_question(apiKey, cache, now, world, up, Strip(query)))

\* the sidebar's "New Chat" button
NewChatClick ==
  /\ Len(session.chats) < MaxChats
  /\ session' = new_chat(session)
  /\ Quiet("new_chat")
  /\ UNCHANGED <<apiKey, cache, writer, now, world>>

InitChat ==
  /\ apiKey \in ApiKeys
  /\ cache = EmptyCache
  /\ writer = EmptyCache
  /\ now = 0
  /\ world \in ChatWorlds
  /\ op = "init"
  /\ arg = <<>>
  /\ calls = <<>>
  /\ llm = <<>>
  /\ ret = NoRet
  /\ session = NoSession

NextChat == Submit \/ NewChatClick

\* the conversation: queries submitted to the script and new chats opened
SpecChat == InitChat /\ [][NextChat]_vars

\* One call of answer_question on an empty cache, over worlds with long
\* articles; arg holds the question of the call to come.
InitContext ==
  /\ apiKey = "AIza-key"
  /\ cache = EmptyCache
  /\ writer = EmptyCache
  /\ now = 0
  /\ arg = Q_AI_PADDED
  /\ world \in ContextWorlds
  /\ op = "init"
  /\ calls = <<>>
  /\ llm = <<>>
  /\ ret = NoRet
  /\ session = NoSession

AnswerQuery ==
  /\ op = "init"
  /\ \E up \in BOOLEAN :
       AnswerDone(arg, answer_question(apiKey, cache, now, world, up, arg))

SpecContext == InitContext /\ [][AnswerQuery]_vars

\* One call of _fetch_rss; arg holds the url and max_items of the call to
\* come, calls the record of the call made.
InitFeed ==
  /\ apiKey = "AIza-key"
  /\ cache = EmptyCache
  /\ writer = EmptyCache
  /\ now = 0
  /\ world \in FeedWorlds
  /\ arg \in [url : FeedUrls, max_items : MaxItemsValues]
  /\ op = "init"
  /\ calls = <<>>
  /\ llm = <<>>
  /\ ret = NoRet
  /\ session = NoSession

FetchFeedDone(r) ==
  /\ op' = "_fetch_rss"
  /\ calls' = <<r>>
  /\ UNCHANGED <<apiKey, cache, writer, now, world, arg, llm, ret, session>>

FetchFeed ==
  /\ op = "init"
  /\ FetchFeedDone(_fetch_rss(world, arg.url, arg.max_items))

SpecFeed == InitFeed /\ [][FetchFeed]_vars

\* Two threads inside fetch_news. Nothing in the module orders them, so a
\* thread can be suspended between the freshness test (l.127), the fetches
\* of the tiers (l.136-151) and the store (l.163). calls[p] is the call of
\* thread p: where it stands, what it fetched, what it returned and when.
Idle ==
  [pc |-> "idle", topic |-> <<>>, key |-> <<>>, acc |-> NothingFetched,
   hit |-> FALSE, result |-> <<>>, at |-> 0]

InitRace ==
  /\ apiKey = "AIza-key"
  /\ cache = EmptyCache
  /\ writer = EmptyCache
  /\ now = 0
  /\ world \in RaceWorlds
  /\ op = "init"
  /\ arg = <<>>
  /\ calls = [p \in Threads |-> Idle]
  /\ llm = <<>>
  /\ ret = NoRet
  /\ session = NoSession

\* key = _cache_key(topic); if _is_fresh(key): return _cache[key]["data"]
Tested(topic, key, fresh, c, t) ==
  IF fresh
  THEN [pc |-> "done", topic |-> topic, key |-> key, acc |-> NothingFetched,
        hit |-> TRUE, result |-> c[key].data, at |-> t]
  ELSE [pc |-> "missed", topic |-> topic, key |-> key, acc |-> NothingFetched,
        hit |-> FALSE, result |-> <<>>, at |-> 0]

TestCache(p) ==
  /\ calls[p].pc = "idle"
  /\ \E topic \in RaceTopics :
       calls' = [calls EXCEPT ![p] = Tested(topic, _cache_key(topic),
                                            _is_fresh(cache, now, _cache_key(topic)), cache, now)]
  /\ op' = "test"
  /\ UNCHANGED <<apiKey, cache, writer, now, world, arg, llm, ret, session>>

\* the three tiers
FetchTiers(p) ==
  /\ calls[p].pc = "missed"
  /\ calls' = [calls EXCEPT
                 ![p].pc = "fetched",
                 ![p].acc = AfterTopic(world, AfterSearch(world, calls[p].topic,
                                                         SearchTier(world, calls[p].topic)))]
  /\ op' = "fetch"
  /\ UNCHANGED <<apiKey, cache, writer, now, world, arg, llm, ret, session>>

Stored(p, f, t) ==
  /\ cache' = f.cache
  /\ calls' = [calls EXCEPT ![p].pc = "done", ![p].result = f.call.result, ![p].at = t]

\* deduplicate, _cache[key] = ..., return
StoreResult(p) ==
  /\ calls[p].pc = "fetched"
  /\ Stored(p, Finish(cache, now, calls[p].key, calls[p].topic, FIRST_HOURS, calls[p].acc), now)
  /\ op' = "store"
  /\ UNCHANGED <<apiKey, writer, now, world, arg, llm, ret, session>>

TickRace ==
  /\ now + RaceStep <= MaxNow
  /\ now' = now + RaceStep
  /\ op' = "tick"
  /\ UNCHANGED <<apiKey, cache, writer, world, arg, calls, llm, ret, session>>

NextRace == (\E p \in Threads : TestCache(p) \/ FetchTiers(p) \/ StoreResult(p)) \/ TickRace

SpecRace == InitRace /\ [][NextRace]_vars

\* The news-fetcher module on its own: calls of fetch_news with either
\* value of hours, clear_cache, and a clock that stops on both sides of the
\* freshness boundary.
InitFetcher ==
  /\ apiKey = "AIza-key"
  /\ cache = EmptyCache
  /\ writer = EmptyCache
  /\ now = 0
  /\ world \in MainWorlds
  /\ op = "init"
  /\ arg = <<>>
  /\ calls = <<>>
  /\ llm = <<>>
  /\ ret = NoRet
  /\ session = NoSession

FetchNewsHours ==
  \E topic \in Topics, hours \in BothHours :
    FetchNewsDone(topic, fetch_news(cache, now, world, topic, hours))

TickBoundary ==
  \E d \in BoundarySteps :
    /\ now + d <= MaxNow
    /\ now' = now + d
    /\ Quiet("tick")
    /\ UNCHANGED <<apiKey, cache, writer, world, session>>

NextFetcher == FetchNewsHours \/ ClearCache \/ TickBoundary \/ WorldChange

SpecFetcher == InitFetcher /\ [][NextFetcher]_vars

Next == FetchNews \/ AnswerQuestion \/ ClearCache \/ Tick \/ WorldChange

Spec == Init /\ [][Next]_vars

---------------------------------------------------------------------------
(* Properties *)

Smaller(a, b) == IF a < b THEN a ELSE b

Normal(s) == Strip(Lower(s))

Events(call) == {call.fetched[j] : j \in 1..Len(call.fetched)}

Credential == apiKey \notin {"", "your_gemini_key_here"}

\* C1: a fetch_news call for a topic whose lower-cased, trimmed form equals
\* that of the topic whose call stored an entry less than 900 seconds ago
\* returns exactly the stored list, fetches no feed and leaves the cache as
\* it is.
C1_CacheHit ==
  [][ op' = "fetch_news" =>
        \A k \in DOMAIN cache :
          (Normal(writer[k]) = Normal(arg') /\ now - cache[k].ts < 900) =>
            /\ calls'[1].kind = "return"
            /\ calls'[1].result = cache[k].data
            /\ calls'[1].fetched = <<>>
            /\ cache' = cache ]_vars

C1_Witness ==
  /\ op = "fetch_news"
  /\ calls[1].hit
  /\ writer[calls[1].key] # arg
  /\ calls[1].result # <<>>
  /\ now > cache[calls[1].key].ts

\* what C2 asks of a call that returns the empty list
AllSourcesTried(call) ==
  /\ \E e \in Events(call) : e.tier = 1 /\ e.url = SearchUrl(call.topic) /\ e.n = 0
  /\ \A i \in 1..Len(FeedsOf(TOPIC_RSS_FEEDS, _detect_topic(call.topic))) :
       \E e \in Events(call) :
         e.tier = 2 /\ e.url = FeedsOf(TOPIC_RSS_FEEDS, _detect_topic(call.topic))[i] /\ e.n = 0
  /\ \A i \in 1..Len(TOPIC_RSS_FEEDS["default"]) :
       \E e \in Events(call) : e.tier = 3 /\ e.url = TOPIC_RSS_FEEDS["default"][i] /\ e.n = 0

\* C2: fetch_news returns the empty list only if, during that call, the
\* search feed, every feed of the detected bucket and every feed of the
\* default bucket were attempted and each contributed no article.
C2_EmptyOnlyAfterAllTried ==
  \A i \in 1..Len(calls) :
    (calls[i].kind = "return" /\ calls[i].result = <<>>) => AllSourcesTried(calls[i])

\* C2 restricted to the calls that miss the cache: such a call returns an
\* empty list only after it attempted every source of every tier.
C2_EmptyMissAllTried ==
  \A i \in 1..Len(calls) :
    (calls[i].kind = "return" /\ ~calls[i].hit /\ calls[i].result = <<>>) => AllSourcesTried(calls[i])

\* C3 as claimed: a fetch of a feed in which a failure occurs returns the
\* empty list.
C3_FailureGivesEmpty ==
  \A i \in 1..Len(calls) : \A e \in Events(calls[i]) :
    e.failed => (e.kind = "return" /\ e.n = 0)

FirstBad(es) ==
  IF \E j \in 1..Len(es) : es[j].bad
  THEN CHOOSE j \in 1..Len(es) : es[j].bad /\ \A m \in 1..(j - 1) : ~es[m].bad
  ELSE Len(es) + 1

\* the documents of the entries that come before the failure
DocsBeforeFailure(feed, max_items) ==
  IF feed.raises THEN <<>>
  ELSE ConvertEntries(SubSeq(feed.entries, 1, FirstBad(Take(feed.entries, max_items)) - 1),
                      feed.title, <<>>).docs

\* C3 (amended): a fetch of a feed in which a failure occurs does not raise
\* and returns the documents built before the failure (none when the
\* retrieval or the parse fails); fetch_news does not raise, and its
\* accumulated list is the concatenation of what its fetches returned.
C3_FailureIsolated ==
  \A i \in 1..Len(calls) :
    /\ calls[i].kind = "return"
    /\ \A e \in Events(calls[i]) :
         /\ e.kind = "return"
         /\ e.n = Len(DocsBeforeFailure(Feed(world, e.url), e.max_items))
    /\ calls[i].docs =
         Concat([j \in 1..Len(calls[i].fetched) |->
                   DocsBeforeFailure(Feed(world, calls[i].fetched[j].url), calls[i].fetched[j].max_items)])

C3_Witness ==
  \E i \in 1..Len(calls) :
    /\ calls[i].kind = "return"
    /\ \E e \in Events(calls[i]) : e.failed /\ e.n > 0

\* C5: with a credential, answer_question calls fetch_news with the first
\* 50 characters of the question and hours 48; it calls
\* fetch_news("latest news", 24) iff that gave nothing; if the last call
\* gave nothing it returns the sentinel with no citation and never calls
\* the model.
C5_Retrieval ==
  (op = "answer_question" /\ Credential) =>
    /\ Len(calls) \in {1, 2}
    /\ calls[1].topic = SubSeq(arg, 1, Smaller(50, Len(arg)))
    /\ calls[1].hours = 48
    /\ (Len(calls) = 2) <=> (calls[1].result = <<>>)
    /\ Len(calls) = 2 =>
         /\ calls[2].topic = <<"l","a","t","e","s","t"," ","n","e","w","s">>
         /\ calls[2].hours = 24
    /\ calls[Len(calls)].result = <<>> =>
         /\ ret = [kind |-> "return", answer |-> "No news articles found.", sources |-> <<>>]
         /\ llm = <<>>

C5_Witness ==
  /\ op = "answer_question"
  /\ Credential
  /\ Len(arg) > 50
  /\ Len(calls) = 2
  /\ calls[2].result = <<>>
  /\ ret.answer = "No news articles found."

\* C7: with the credential empty or the placeholder, answer_question
\* returns the message and no citation, calls neither fetch_news nor the
\* model, and leaves the cache as it was.
C7_MissingCredential ==
  [][ (op' = "answer_question" /\ ~Credential) =>
        /\ ret' = [kind |-> "return", answer |-> "Set GEMINI_API_KEY in .env", sources |-> <<>>]
        /\ calls' = <<>>
        /\ llm' = <<>>
        /\ cache' = cache ]_vars

C7_Witness ==
  /\ op = "answer_question"
  /\ apiKey = "your_gemini_key_here"
  /\ DOMAIN cache # {}
  /\ ret.answer = "Set GEMINI_API_KEY in .env"

\* C9: when answer_question returns the model's output, it returns
\* min(8, number of articles) citations, the i-th being the title, source
\* and url of the i-th article.
C9_Citations ==
  (op = "answer_question" /\ ret.kind = "return" /\ llm # <<>>) =>
    /\ Len(ret.sources) = Smaller(8, Len(calls[Len(calls)].result))
    /\ \A i \in 1..Len(ret.sources) :
         ret.sources[i] = [title  |-> calls[Len(calls)].result[i].metadata.title,
                           source |-> calls[Len(calls)].result[i].metadata.source,
                           url    |-> calls[Len(calls)].result[i].metadata.url]

C9_Witness ==
  /\ op = "answer_question"
  /\ ret.kind = "return"
  /\ llm # <<>>
  /\ Len(calls[Len(calls)].result) > 8
  /\ Len(ret.sources) = 8

\* the indices of docs whose title occurs at no earlier index
FirstOccurrences(docs) ==
  {i \in 1..Len(docs) : \A j \in 1..(i - 1) : docs[j].metadata.title # docs[i].metadata.title}

\* list holds exactly the elements of docs at the indices in keep, in order
Picked(list, docs, keep) ==
  /\ Len(list) = Cardinality(keep)
  /\ \A i \in keep : list[Cardinality({j \in keep : j <= i})] = docs[i]

\* C4: the list fetch_news returns and caches holds no title twice and is
\* the accumulated list of the tiers with, for each title, only its first
\* occurrence, in the original order.
C4_Deduplicated ==
  \A c \in 1..Len(calls) :
    (calls[c].kind = "return" /\ ~calls[c].hit) =>
      /\ \A i, j \in 1..Len(calls[c].result) :
           i # j => calls[c].result[i].metadata.title # calls[c].result[j].metadata.title
      /\ Picked(calls[c].result, calls[c].docs, FirstOccurrences(calls[c].docs))
      /\ cache[calls[c].key].data = calls[c].result

C4_Witness ==
  /\ op = "fetch_news"
  /\ ~calls[1].hit
  /\ \E i, j \in 1..Len(calls[1].docs) :
       /\ i < j
       /\ j < Len(calls[1].docs)
       /\ calls[1].docs[i].metadata.title = calls[1].docs[j].metadata.title
       /\ calls[1].docs[i].page_content # calls[1].docs[j].page_content
       /\ calls[1].docs[i] \in {calls[1].result[n] : n \in 1..Len(calls[1].result)}
       /\ calls[1].docs[j] \notin {calls[1].result[n] : n \in 1..Len(calls[1].result)}

Occurs(kw, q) == \E i \in 1..(Len(q) - Len(kw) + 1) : \A j \in 1..Len(kw) : q[i + j - 1] = kw[j]

\* the buckets, by their place in the mapping, with a keyword in the query
Matching(query) ==
  {i \in 1..Len(mapping) :
     \E k \in 1..Len(mapping[i].keywords) : Occurs(mapping[i].keywords[k], Lower(query))}

\* C10: the bucket fetch_news detects for a query is the first bucket of the
\* mapping, in declared order, with a keyword occurring in the lower-cased
\* query, and is `default` exactly when no keyword of any bucket occurs.
FirstOf(detected, matching) ==
  /\ matching # {} =>
       \E i \in matching : (\A m \in matching : i <= m) /\ detected = mapping[i].topic
  /\ (detected = "default") <=> (matching = {})

C10_DetectTopic ==
  \A c \in 1..Len(calls) :
    calls[c].detected # "" => FirstOf(calls[c].detected, Matching(calls[c].topic))

C10_Witness ==
  /\ op = "fetch_news"
  /\ calls[1].detected = "cricket"
  /\ Cardinality(Matching(calls[1].topic)) > 1


\* the chat get_chat() returns
ActiveChat == session.chats[get_chat(session)]

ModelCallFailed == llm # <<>> /\ ~llm[1].ok

\* C6 (as stated): whenever the model call fails inside answer_question, the
\* call does not raise: it returns an error description as the answer text
\* and an empty citation list.
C6_NoPropagation ==
  ModelCallFailed => (ret.kind = "return" /\ ret.answer = MODEL_ERROR /\ ret.sources = <<>>)

\* C6 (amended): when the model call fails inside answer_question the failure
\* leaves answer_question as a raised exception, and the chat input handler
\* that called it records, after the user's message, an assistant message
\* that reads "Error: " followed by the failure's description and carries no
\* citations.
C6_HandlerCatches ==
  (op = "submit" /\ ModelCallFailed) =>
    /\ ret.kind = "raise"
    /\ get_chat(session) # 0
    /\ Len(ActiveChat.msgs) >= 2
    /\ ActiveChat.msgs[Len(ActiveChat.msgs) - 1] = [role |-> "user", text |-> Strip(arg)]
    /\ ActiveChat.msgs[Len(ActiveChat.msgs)] =
         [role |-> "ai", text |-> <<"Error: ", MODEL_ERROR>>, sources |-> <<>>]

C6_Witness == op = "submit" /\ ModelCallFailed /\ calls # <<>> /\ calls[Len(calls)].result # <<>>

\* the articles the step's last fetch_news call returned
Returned == calls[Len(calls)].result

CutLen(docs, i) == Smaller(Len(docs[i].page_content), 1200)

\* where article i's piece begins in the joined text (characters before it)
RECURSIVE PieceStart(_, _)
PieceStart(docs, i) ==
  IF i = 1 THEN 0 ELSE PieceStart(docs, i - 1) + CutLen(docs, i - 1) + 7

PieceAt(ctx, start, content, len) ==
  SubSeq(ctx, start + 1, Smaller(start + len, Len(ctx)))
    = SubSeq(content, 1, Smaller(start + len, Len(ctx)) - start)

SeparatorAt(ctx, start) ==
  SubSeq(ctx, start + 1, Smaller(start + 7, Len(ctx)))
    = SubSeq(<<"\n","\n","-","-","-","\n","\n">>, 1, Smaller(start + 7, Len(ctx)) - start)

ContextOf(ctx, docs, m) ==
  /\ Len(ctx) = Smaller(PieceStart(docs, m) + CutLen(docs, m), 12000)
  /\ \A i \in 1..m : PieceAt(ctx, PieceStart(docs, i), docs[i].page_content, CutLen(docs, i))
  /\ \A i \in 1..(m - 1) : SeparatorAt(ctx, PieceStart(docs, i) + CutLen(docs, i))

\* C8: the context answer_question passes to the model call has at most
\* 12000 characters, and it is the first 8 articles' contents, each cut to
\* its first 1200 characters, with the separator between consecutive ones,
\* cut to its first 12000 characters.
C8_Context ==
  (op = "answer_question" /\ llm # <<>>) =>
    /\ Len(llm[1].context) <= 12000
    /\ ContextOf(llm[1].context, Returned, Smaller(Len(Returned), 8))

C8_Witness ==
  /\ op = "answer_question"
  /\ llm # <<>>
  /\ Len(Returned) > 8
  /\ \E i \in 1..8 : Len(Returned[i].page_content) > 1200
  /\ Len(llm[1].context) = 8 * 1200 + 7 * 7


\* what a fetch_news call did, returned and left in the cache, its hours
\* argument put aside
Effect(f) == [cache |-> f.cache, call |-> [f.call EXCEPT !.hours = 0]]

\* C11: from the same cache, clock and feed responses, fetch_news(topic, h)
\* performs the same fetches, returns the same list and leaves the same
\* cache whatever the value of h.
C11_HoursIgnored ==
  [][op' = "fetch_news" =>
       \A h \in BothHours :
         Effect(fetch_news(cache, now, world, arg', h)) = Effect([cache |-> cache', call |-> calls'[1]])]_vars

\* a 24-hour call served from an entry, and a 24-hour call that fetched
C11_Witness ==
  /\ op = "fetch_news"
  /\ calls[1].hours = 24
  /\ calls[1].result # <<>>
  /\ calls[1].fetched # <<>>


\* the fetches a call made in one tier, in the order it made them
TierEvents(call, tier) == SelectSeq(call.fetched, LAMBDA e : e.tier = tier)

\* how many articles the first j fetches of a call brought
RECURSIVE Total(_, _)
Total(events, j) == IF j = 0 THEN 0 ELSE Total(events, j - 1) + events[j].n

\* the articles of the call's j-th fetch sit in the accumulated list right
\* after those of the fetches before it
Appended(w, call, j) ==
  SubSeq(call.docs, Total(call.fetched, j - 1) + 1, Total(call.fetched, j))
    = _fetch_rss(w, call.fetched[j].url, call.fetched[j].max_items).docs

Bucket(topic) == TOPIC_RSS_FEEDS[_detect_topic(topic)]

TopicTierAsSpecified(w, call, t2, bucket) ==
  /\ (t2 # <<>>) <=> (call.fetched[1].n < 5)
  /\ Len(t2) <= Len(bucket)
  /\ \A j \in 1..Len(t2) :
       /\ call.fetched[1 + j] = t2[j]
       /\ t2[j].url = bucket[j]
       /\ t2[j].max_items = 8
       /\ Appended(w, call, 1 + j)
       /\ j < Len(t2) => Total(call.fetched, 1 + j) < 10
  /\ t2 # <<>> => (Len(t2) = Len(bucket) \/ Total(call.fetched, 1 + Len(t2)) >= 10)

\* C12: on a cache miss the topic bucket's feeds are fetched if and only if
\* the search tier returned fewer than 5 articles; they are fetched in the
\* bucket's order with max_items 8, each result is appended, and the
\* iteration ends right after the first feed that brings the running total
\* to 10 or more, or with the bucket's last feed.
C12_TopicTier ==
  \A c \in 1..Len(calls) :
    (calls[c].kind = "return" /\ ~calls[c].hit) =>
      TopicTierAsSpecified(world, calls[c], TierEvents(calls[c], 2), Bucket(calls[c].topic))

\* a sparse search, then the bucket's first feed reaches 10 and the bucket's
\* later feeds are left alone
C12_Witness ==
  /\ op = "fetch_news"
  /\ ~calls[1].hit
  /\ calls[1].fetched[1].n > 0
  /\ Len(TierEvents(calls[1], 2)) = 1
  /\ Len(Bucket(calls[1].topic)) = 3
  /\ Total(calls[1].fetched, 2) >= 10


DefaultTierAsSpecified(w, call, before, t3, dflt) ==
  /\ (t3 # <<>>) <=> (Total(call.fetched, before) < 3)
  /\ t3 # <<>> => Len(t3) = Len(dflt)
  /\ \A j \in 1..Len(t3) :
       /\ call.fetched[before + j] = t3[j]
       /\ t3[j].url = dflt[j]
  /\ Len(call.fetched) = before + Len(t3)
  /\ Len(call.docs) = Total(call.fetched, Len(call.fetched))
  /\ \A j \in 1..Len(call.fetched) : Appended(w, call, j)
  /\ Picked(call.result, call.docs, FirstOccurrences(call.docs))

\* C13: on a cache miss the default bucket is fetched if and only if tiers 1
\* and 2 collected fewer than 3 articles; then every feed of the default
\* bucket is fetched, in order and with no early stop, and the returned
\* list is the concatenation of the results of tiers 1, 2 and 3 in that
\* order with, for each title, only its first occurrence.
C13_DefaultTier ==
  \A c \in 1..Len(calls) :
    (calls[c].kind = "return" /\ ~calls[c].hit) =>
      DefaultTierAsSpecified(world, calls[c], 1 + Len(TierEvents(calls[c], 2)),
                             TierEvents(calls[c], 3), TOPIC_RSS_FEEDS["default"])

\* nothing from the search, two articles from the topic bucket, and both
\* default feeds fetched although the first one already brings 8
C13_Witness ==
  /\ op = "fetch_news"
  /\ ~calls[1].hit
  /\ calls[1].fetched[1].n = 0
  /\ Len(TierEvents(calls[1], 2)) = 1
  /\ Total(calls[1].fetched, 2) = 2
  /\ Len(TierEvents(calls[1], 3)) = 2
  /\ calls[1].fetched[3].n = 8
  /\ calls[1].fetched[4].n > 0
  /\ Len(calls[1].result) = Len(calls[1].docs)


\* a call for key k that found a fresh entry: served from it, nothing
\* fetched, nothing written
ServedFrom(c, c2, call, k) ==
  /\ call.hit
  /\ call.fetched = <<>>
  /\ call.result = c[k].data
  /\ c2 = c

\* a call for key k that found no fresh entry: the tiers ran and the entry
\* of k is now the new list with time t, every other entry as it was
Refreshed(c, c2, call, k, t) ==
  /\ ~call.hit
  /\ call.fetched # <<>>
  /\ call.fetched[1].tier = 1
  /\ Picked(call.result, call.docs, FirstOccurrences(call.docs))
  /\ DOMAIN c2 = DOMAIN c \cup {k}
  /\ c2[k] = [data |-> call.result, ts |-> t]
  /\ \A k2 \in DOMAIN c \ {k} : c2[k2] = c[k2]

\* C14: an entry of key k is served only while now - ts < 900; a fetch_news
\* call for k at now - ts >= 900, or with no entry of k, runs the tiers
\* again and replaces the whole entry of k by the new deduplicated list and
\* the current time, the entries of the other keys staying as they are.
C14_FreshnessAndRefresh ==
  [][op' = "fetch_news" =>
       IF Normal(arg') \in DOMAIN cache /\ now - cache[Normal(arg')].ts < 900
       THEN ServedFrom(cache, cache', calls'[1], Normal(arg'))
       ELSE Refreshed(cache, cache', calls'[1], Normal(arg'), now)]_vars

\* an entry refreshed at 900 seconds while the entry of another key, 450
\* seconds old, is still the one stored then
C14_Witness ==
  /\ op = "fetch_news"
  /\ ~calls[1].hit
  /\ now = 900
  /\ cache[calls[1].key].ts = 900
  /\ calls[1].result # <<>>
  /\ \E k2 \in DOMAIN cache : k2 # calls[1].key /\ cache[k2].ts = 450


\* the place in the raw feed of the entry an article was made from (every
\* entry of a feed has a link of its own)
EntryOf(entries, doc) == CHOOSE i \in 1..Len(entries) : entries[i].link = doc.metadata.url

\* the inspected entries that make an article: those with a title left
\* after cleaning, up to the first one whose conversion fails
Usable(entries, inspected) ==
  {i \in 1..inspected :
     /\ _clean(entries[i].title) # <<>>
     /\ \A j \in 1..i : ~entries[j].bad}

FeedSliceAsSpecified(feed, docs, max_items, inspected) ==
  /\ Len(docs) <= max_items
  /\ \A j \in 1..Len(docs) :
       /\ docs[j].metadata.title # <<>>
       /\ \E i \in 1..Len(feed.entries) : feed.entries[i].link = docs[j].metadata.url
       /\ EntryOf(feed.entries, docs[j]) <= max_items
       /\ docs[j].metadata.title = _clean(feed.entries[EntryOf(feed.entries, docs[j])].title)
       /\ \A k \in 1..(j - 1) : EntryOf(feed.entries, docs[k]) < EntryOf(feed.entries, docs[j])
  /\ ~feed.raises => Len(docs) = Cardinality(Usable(feed.entries, inspected))

\* C15: _fetch_rss(url, max_items) looks at the first max_items raw entries
\* only: every article it returns has a non-empty cleaned title and comes
\* from one of those entries, the articles are at most max_items and in
\* feed order, and an entry skipped for its empty title is not made up for
\* by an entry at a later position.
C15_FeedSlice ==
  op = "_fetch_rss" =>
    /\ calls[1].kind = "return"
    /\ FeedSliceAsSpecified(Feed(world, arg.url), calls[1].docs, arg.max_items,
                            Smaller(arg.max_items, Len(Feed(world, arg.url).entries)))

\* nine entries, the second with a title that cleans to nothing, max_items
\* 8: seven articles, the ninth entry left out
C15_Witness ==
  /\ op = "_fetch_rss"
  /\ arg.max_items = 8
  /\ Len(Feed(world, arg.url).entries) = 9
  /\ _clean(Feed(world, arg.url).entries[2].title) = <<>>
  /\ Len(calls[1].docs) = 7


\* the messages of the chat the handler finds active, none if there is none
MessagesOf(s) == IF get_chat(s) = 0 THEN <<>> ELSE s.chats[get_chat(s)].msgs

Alternating(msgs) ==
  \A i \in 1..Len(msgs) : msgs[i].role = (IF i % 2 = 1 THEN "user" ELSE "ai")

TurnAdded(before, after, q) ==
  /\ Len(after) = Len(before) + 2
  /\ SubSeq(after, 1, Len(before)) = before
  /\ after[Len(before) + 1] = [role |-> "user", text |-> q]
  /\ after[Len(before) + 2].role = "ai"
  /\ DOMAIN after[Len(before) + 2] = {"role", "text", "sources"}
  /\ Alternating(after)

\* C16: for every submitted query that is not blank, however answer_question
\* ends, the active chat's message list grows by exactly one user message
\* followed by exactly one assistant message, so that user and assistant
\* messages alternate.
C16_TurnRecorded ==
  [][(op' = "submit" /\ Strip(arg') # <<>>) =>
       TurnAdded(MessagesOf(session), MessagesOf(session'), Strip(arg'))]_vars

\* a second turn that ends in a raised model failure, after a first turn
\* that did not
C16_Witness ==
  /\ op = "submit"
  /\ ret.kind = "raise"
  /\ Len(MessagesOf(session)) = 4
  /\ MessagesOf(session)[2].text # MessagesOf(session)[4].text


\* C17: nothing orders two concurrent fetch_news calls for one key: whether
\* a call fetches depends on the cache alone at the moment of its test, not
\* on a call in progress, and a call that fetched stores its list over
\* whatever entry the key has by then; so both calls can miss, both fetch
\* and both write within one freshness window.
C17_Unsynchronized ==
  [][\A p \in Threads :
       /\ (calls[p].pc = "idle" /\ calls'[p].pc # "idle") =>
            (calls'[p].pc = "missed" <=>
               ~(calls'[p].key \in DOMAIN cache /\ now - cache[calls'[p].key].ts < 900))
       /\ (calls[p].pc = "fetched" /\ calls'[p].pc = "done") =>
            cache'[calls[p].key] = [data |-> calls'[p].result, ts |-> now]]_vars

\* both calls, for topics of one key, missed, fetched and stored, the second
\* store within 900 seconds of the first and over it
C17_Witness ==
  /\ \A p \in Threads :
       /\ calls[p].pc = "done"
       /\ ~calls[p].hit
       /\ calls[p].acc.fetched # <<>>
       /\ calls[p].result # <<>>
  /\ calls[1].key = calls[2].key
  /\ calls[1].topic # calls[2].topic
  /\ calls[1].at = 0
  /\ calls[2].at = 450
  /\ cache[calls[2].key].ts = 450


\* C18 (as stated): over any sequence of operations of the news-fetcher
\* module a key that has an entry keeps having one: the set of keys only
\* grows.
C18_KeysOnlyGrow == [][DOMAIN cache \subseteq DOMAIN cache']_vars

\* C18 (amended): fetch_news and the passing of time never remove an entry:
\* across every step other than clear_cache the set of keys only grows, and
\* an entry changes only by a fetch_news call for its own key that finds it
\* at least 900 seconds old; clear_cache removes every entry.
C18_PurgedOnlyByClear ==
  [][/\ op' # "clear_cache" =>
          /\ DOMAIN cache \subseteq DOMAIN cache'
          /\ \A k \in DOMAIN cache :
               cache'[k] # cache[k] =>
                 /\ op' = "fetch_news"
                 /\ k = Normal(arg')
                 /\ now - cache[k].ts >= 900
     /\ op' = "clear_cache" => DOMAIN cache' = {}]_vars

\* a call for one key completes while the entry of another key, 900 seconds
\* old, is still there
C18_Witness ==
  /\ op = "fetch_news"
  /\ ~calls[1].hit
  /\ \E k \in DOMAIN cache : k # calls[1].key /\ now - cache[k].ts >= 900


SizeAsSpecified(call) ==
  /\ call.fetched[1].n <= 15
  /\ TierEvents(call, 2) = <<>> /\ TierEvents(call, 3) = <<>> => Len(call.docs) <= 15
  /\ TierEvents(call, 2) # <<>> =>
       /\ call.fetched[1].n <= 4
       /\ Total(call.fetched, 1 + Len(TierEvents(call, 2))) <= 17
  /\ TierEvents(call, 3) # <<>> => Total(call.fetched, 1 + Len(TierEvents(call, 2))) <= 2
  /\ Len(call.docs) <= 18
  /\ Len(call.result) <= 18

\* C19: the list fetch_news returns has at most 18 articles: at most 15
\* from tier 1 alone, at most 17 when tier 2 ran (reached with at most 4,
\* ended at the first total of 10 or more), at most 18 when tier 3 ran
\* (reached with at most 2, two default feeds of at most 8 each); every
\* cached list obeys the same bound.
C19_AtMost18 ==
  /\ \A c \in 1..Len(calls) :
       calls[c].kind = "return" =>
         /\ Len(calls[c].result) <= 18
         /\ ~calls[c].hit => SizeAsSpecified(calls[c])
  /\ \A k \in DOMAIN cache : Len(cache[k].data) <= 18

C19_Witness ==
  /\ op = "fetch_news"
  /\ ~calls[1].hit
  /\ Len(calls[1].result) = 18
  /\ Len(cache[calls[1].key].data) = 18

=============================================================================
